---- MODULE Spec2Model ----
(***************************************************************************)
(* A model of python_caltrain/caltrain.py: the GTFS loader, the station   *)
(* lookup, the fare lookup, the trip search and the module's helpers.     *)
(*                                                                         *)
(* Python strings are sequences of one-character strings, so that the     *)
(* sanitizer, the regular expression and the parsers work on characters.  *)
(* A dict whose iteration order matters is a sequence of <<key, value>>   *)
(* pairs in insertion order.  A datetime.time is a record of hour, minute *)
(* and second; a date is a record of year, month and day; a timedelta is  *)
(* a record of days and seconds, normalised as Python keeps it.           *)
(***************************************************************************)
EXTENDS Integers, Sequences, FiniteSets, TLC

VARIABLES version, trains, stations, unambiguous_stations,
          service_windows, fares, last, now, after_default

vars == <<version, trains, stations, unambiguous_stations,
          service_windows, fares, last, now, after_default>>

index == <<version, trains, stations, unambiguous_stations,
           service_windows, fares>>

\* The system clock, and the default of next_trips' parameter `after`:
\* datetime.now() in the signature is evaluated once, when the def statement
\* of the class body runs at import.
clock == <<now, after_default>>

(***************************************************************************)
(* Characters and the str methods the module uses.                         *)
(***************************************************************************)
UpperChars == <<"A", "B", "C", "D", "E", "F", "G", "H", "I", "J", "K", "L", "M",
                "N", "O", "P", "Q", "R", "S", "T", "U", "V", "W", "X", "Y", "Z">>

LowerChars == <<"a", "b", "c", "d", "e", "f", "g", "h", "i", "j", "k", "l", "m",
                "n", "o", "p", "q", "r", "s", "t", "u", "v", "w", "x", "y", "z">>

DigitChars == <<"0", "1", "2", "3", "4", "5", "6", "7", "8", "9">>

\* The position of c in s, 0 when absent.
IndexOf(c, s) ==
  IF \E i \in 1..Len(s) : s[i] = c
  THEN CHOOSE i \in 1..Len(s) : s[i] = c /\ \A j \in 1..(i - 1) : s[j] # c
  ELSE 0

UpperSet == {UpperChars[i] : i \in 1..Len(UpperChars)}
LowerSet == {LowerChars[i] : i \in 1..Len(LowerChars)}
DigitSet == {DigitChars[i] : i \in 1..Len(DigitChars)}

IsUpper(c) == c \in UpperSet
IsLower(c) == c \in LowerSet
IsDigitChar(c) == c \in DigitSet
IsAlpha(c) == IsUpper(c) \/ IsLower(c)
\* The complement of the class [^A-Za-z0-9].
IsAlnum(c) == IsAlpha(c) \/ IsDigitChar(c)
\* The ASCII whitespace str.strip() passes over: space, \t, \n, \r, \f,
\* then the line tabulation \x0b and the four separators \x1c, \x1d, \x1e
\* and \x1f, which stand in the set as the characters themselves.
IsSpace(c) == c \in {" ", "\t", "\n", "\r", "\f", "", "", "", "", ""}

LowerOf == [c \in UpperSet |-> LowerChars[IndexOf(c, UpperChars)]]
UpperOf == [c \in LowerSet |-> UpperChars[IndexOf(c, LowerChars)]]
DigitValue == [c \in DigitSet |-> IndexOf(c, DigitChars) - 1]

ToLower(c) == IF IsUpper(c) THEN LowerOf[c] ELSE c
ToUpper(c) == IF IsLower(c) THEN UpperOf[c] ELSE c

\* str.lower, str.upper
Lower(s) == [i \in 1..Len(s) |-> ToLower(s[i])]
Upper(s) == [i \in 1..Len(s) |-> ToUpper(s[i])]

\* str.title: a cased character is upper-cased after an uncased one (or at
\* the start) and lower-cased after a cased one.
Title(s) ==
  [i \in 1..Len(s) |->
     IF i > 1 /\ IsAlpha(s[i - 1]) THEN ToLower(s[i]) ELSE ToUpper(s[i])]

\* str.isdigit
IsDigit(s) == Len(s) > 0 /\ \A i \in 1..Len(s) : IsDigitChar(s[i])

RECURSIVE LStrip(_)
LStrip(s) == IF Len(s) > 0 /\ IsSpace(s[1]) THEN LStrip(Tail(s)) ELSE s

RECURSIVE RStrip(_)
RStrip(s) ==
  IF Len(s) > 0 /\ IsSpace(s[Len(s)]) THEN RStrip(SubSeq(s, 1, Len(s) - 1)) ELSE s

\* str.strip
Strip(s) == RStrip(LStrip(s))

StartsWith(s, p) == Len(s) >= Len(p) /\ SubSeq(s, 1, Len(p)) = p
EndsWith(s, p) == Len(s) >= Len(p) /\ SubSeq(s, Len(s) - Len(p) + 1, Len(s)) = p

\* str.replace(old, new): one pass, left to right, over non-overlapping
\* occurrences; the text a replacement leaves behind is not scanned again.
RECURSIVE Replace(_, _, _)
Replace(s, old, new) ==
  IF Len(s) = 0 THEN s
  ELSE IF StartsWith(s, old)
       THEN new \o Replace(SubSeq(s, Len(old) + 1, Len(s)), old, new)
       ELSE <<s[1]>> \o Replace(Tail(s), old, new)

\* str.split(sep) for a one-character separator.
RECURSIVE Split(_, _)
Split(s, sep) ==
  LET i == IndexOf(sep, s)
  IN IF i = 0 THEN <<s>>
     ELSE <<SubSeq(s, 1, i - 1)>> \o Split(SubSeq(s, i + 1, Len(s)), sep)

\* str.join
RECURSIVE Join(_, _)
Join(sep, parts) ==
  IF Len(parts) = 0 THEN <<>>
  ELSE IF Len(parts) = 1 THEN parts[1]
  ELSE parts[1] \o sep \o Join(sep, Tail(parts))

\* re.split('[^A-Za-z0-9]', s): the maximal alphanumeric runs, with an empty
\* string between two adjacent separators.
RECURSIVE SplitNonAlnum(_)
SplitNonAlnum(s) ==
  IF \A i \in 1..Len(s) : IsAlnum(s[i]) THEN <<s>>
  ELSE LET i == CHOOSE k \in 1..Len(s) :
                  ~IsAlnum(s[k]) /\ \A j \in 1..(k - 1) : IsAlnum(s[j])
       IN <<SubSeq(s, 1, i - 1)>> \o SplitNonAlnum(SubSeq(s, i + 1, Len(s)))

\* The whitespace int() passes over in an ASCII string: that of str.strip()
\* without the four separators; the last member is \x0b itself.
IsIntSpace(c) == c \in {" ", "\t", "\n", "\r", "\f", ""}

\* s without the whitespace int() passes over at its two ends.
IntText(s) ==
  LET inside == {i \in 1..Len(s) : ~IsIntSpace(s[i])}
  IN IF inside = {} THEN <<>>
     ELSE SubSeq(s, CHOOSE i \in inside : \A j \in inside : i <= j,
                    CHOOSE i \in inside : \A j \in inside : i >= j)

\* What int() reads once the whitespace around the text is gone: an optional
\* sign, then the digits.
SignOf(s) == IF Len(s) > 0 /\ s[1] = "-" THEN -1 ELSE 1
Unsigned(s) == IF Len(s) > 0 /\ s[1] \in {"+", "-"} THEN Tail(s) ELSE s

\* Decimal digits, single underscores allowed between two digits.
IsDigits(d) ==
  /\ Len(d) > 0
  /\ IsDigitChar(d[1])
  /\ IsDigitChar(d[Len(d)])
  /\ \A i \in 1..Len(d) : IsDigitChar(d[i]) \/ d[i] = "_"
  /\ \A i \in 1..(Len(d) - 1) : d[i] = "_" => d[i + 1] # "_"

\* The value of a run of decimal digits and underscores.
RECURSIVE DigitsValue(_)
DigitsValue(d) ==
  IF Len(d) = 0 THEN 0
  ELSE IF d[Len(d)] = "_" THEN DigitsValue(SubSeq(d, 1, Len(d) - 1))
  ELSE 10 * DigitsValue(SubSeq(d, 1, Len(d) - 1)) + DigitValue[d[Len(d)]]

\* A call that returned: nothing was raised.
NoError == "none"

\* int() of a text without whitespace around it.
IntOf(t) ==
  IF IsDigits(Unsigned(t))
  THEN [raised |-> NoError, ret |-> SignOf(t) * DigitsValue(Unsigned(t))]
  ELSE [raised |-> "ValueError"]

\* int(s): s is, between optional whitespace, an optional sign and decimal
\* digits, single underscores allowed between two digits.  Any other string,
\* the empty one included, raises ValueError.
int(s) == IntOf(IntText(s))

(***************************************************************************)
(* _sanitize_name                                                          *)
(***************************************************************************)
STATION == <<"s", "t", "a", "t", "i", "o", "n">>

_sanitize_name(name) ==
  Strip(Replace(Lower(Join(<<>>, SplitNonAlnum(name))), STATION, <<>>))

(***************************************************************************)
(* Dates: datetime.strptime(s, '%Y%m%d').date(), date comparison and       *)
(* date.weekday() (0 is Monday).                                           *)
(***************************************************************************)
DateKey(d) == d.year * 10000 + d.month * 100 + d.day
DateLT(d, e) == DateKey(d) < DateKey(e)

IsLeap(y) == (y % 4 = 0) /\ ((y % 100 # 0) \/ (y % 400 = 0))

DaysBeforeMonth(y, m) ==
  <<0, 31, 59, 90, 120, 151, 181, 212, 243, 273, 304, 334>>[m]
  + (IF m > 2 /\ IsLeap(y) THEN 1 ELSE 0)

DaysInMonth(y, m) ==
  <<31, 28, 31, 30, 31, 30, 31, 31, 30, 31, 30, 31>>[m]
  + (IF m = 2 /\ IsLeap(y) THEN 1 ELSE 0)

\* date.toordinal(): 1 is 0001-01-01, a Monday.
ToOrdinal(d) ==
  LET y == d.year - 1
  IN y * 365 + (y \div 4) - (y \div 100) + (y \div 400)
     + DaysBeforeMonth(d.year, d.month) + d.day

Weekday(d) == (ToOrdinal(d) + 6) % 7

NonZeroDigitSet == DigitSet \ {"0"}

\* %m is 1[0-2]|0[1-9]|[1-9]: the lengths the alternatives match at the
\* start of r, in the order the regular expression tries them.
MonthLens(r) ==
  (IF /\ Len(r) >= 2
      /\ \/ r[1] = "1" /\ r[2] \in {"0", "1", "2"}
         \/ r[1] = "0" /\ r[2] \in NonZeroDigitSet
   THEN <<2>> ELSE <<>>)
  \o (IF Len(r) >= 1 /\ r[1] \in NonZeroDigitSet THEN <<1>> ELSE <<>>)

\* %d is 3[0-1]|[1-2]\d|0[1-9]|[1-9]| [1-9]: the length the first matching
\* alternative takes at the start of r, 0 if none matches.
DayLen(r) ==
  IF /\ Len(r) >= 2
     /\ \/ r[1] = "3" /\ r[2] \in {"0", "1"}
        \/ r[1] \in {"1", "2"} /\ IsDigitChar(r[2])
        \/ r[1] = "0" /\ r[2] \in NonZeroDigitSet
  THEN 2
  ELSE IF Len(r) >= 1 /\ r[1] \in NonZeroDigitSet THEN 1
  ELSE IF Len(r) >= 2 /\ r[1] = " " /\ r[2] \in NonZeroDigitSet THEN 2
  ELSE 0

\* datetime.strptime(s, '%Y%m%d').date(): four digits of year, then the
\* first month alternative after which a day matches.  No match, text left
\* over after the day, year 0 or a day the month does not have raise
\* ValueError.
\* %d at the start of d, the text after the month, then the date of the
\* three numbers read.
ParseDay(year, month, d) ==
  IF DayLen(d) < Len(d) THEN [raised |-> "ValueError"]
  ELSE IF year < 1 \/ int(d).ret > DaysInMonth(year, month) THEN [raised |-> "ValueError"]
  ELSE [raised |-> NoError, ret |-> [year |-> year, month |-> month, day |-> int(d).ret]]

\* %m%d over r, the text after the year; fits holds the month lengths
\* after which a day matches.
ParseMonth(year, r, fits) ==
  IF fits = <<>> THEN [raised |-> "ValueError"]
  ELSE ParseDay(year, DigitsValue(SubSeq(r, 1, fits[1])), SubSeq(r, fits[1] + 1, Len(r)))

ParseDate(s) ==
  IF Len(s) < 4 \/ ~IsDigit(SubSeq(s, 1, 4)) THEN [raised |-> "ValueError"]
  ELSE ParseMonth(DigitsValue(SubSeq(s, 1, 4)), SubSeq(s, 5, Len(s)),
                  SelectSeq(MonthLens(SubSeq(s, 5, Len(s))),
                            LAMBDA n : DayLen(SubSeq(s, n + 5, Len(s))) > 0))

(***************************************************************************)
(* _resolve_time and _resolve_duration                                     *)
(***************************************************************************)
SecondsPerDay == 86400

\* timedelta(days=, hours=, minutes=, seconds=), normalised as Python keeps
\* it: whole days, and seconds from 0 to 86399.  The whole days of each
\* argument are carried first, so that no sum leaves 32 bits.
timedelta(days, hours, minutes, seconds) ==
  LET rest == (hours % 24) * 3600 + (minutes % 1440) * 60 + (seconds % SecondsPerDay)
  IN [days |-> days + (hours \div 24) + (minutes \div 1440)
                 + (seconds \div SecondsPerDay) + (rest \div SecondsPerDay),
      seconds |-> rest % SecondsPerDay]

\* timedelta.total_seconds().
total_seconds(delta) == delta.days * SecondsPerDay + delta.seconds

\* (_BASE_DATE + delta).time(): _BASE_DATE is a midnight, so the time of day
\* is the seconds of the delta.
TimeOfBase(delta) ==
  [hour |-> delta.seconds \div 3600,
   minute |-> (delta.seconds % 3600) \div 60,
   second |-> delta.seconds % 60]

\* The ordering of datetime.time values.
TimeKey(t) == t.hour * 3600 + t.minute * 60 + t.second
TimeLT(t, u) == TimeKey(t) < TimeKey(u)
TimeLE(t, u) == TimeKey(t) <= TimeKey(u)

\* _BASE_DATE + delta is a datetime: its date lies between 0001-01-01 and
\* 9999-12-31.  Outside, the addition raises OverflowError.
InDatetimeRange(delta) ==
  LET o == ToOrdinal([year |-> 1970, month |-> 1, day |-> 1]) + delta.days
  IN o >= 1 /\ o <= ToOrdinal([year |-> 9999, month |-> 12, day |-> 31])

\* hour, minute, second = [int(x) for x in parts]: a field that is no
\* integer, or a number of fields other than three, raises ValueError.
IntFields(parts) ==
  IF Len(parts) # 3 \/ \E i \in 1..Len(parts) : int(parts[i]).raised # NoError
  THEN [raised |-> "ValueError"]
  ELSE [raised |-> NoError, ret |-> [i \in 1..Len(parts) |-> int(parts[i]).ret]]

\* (day, (_BASE_DATE + delta).time())
DayAndTime(day, delta) ==
  IF ~InDatetimeRange(delta) THEN [raised |-> "OverflowError"]
  ELSE [raised |-> NoError, ret |-> <<day, TimeOfBase(delta)>>]

\* A changed split: any hour from 24 on counts as one day.
DivModHour_one_day(f) ==
  IF f.raised # NoError THEN f
  ELSE DayAndTime(IF f.ret[1] >= 24 THEN 1 ELSE 0,
                  timedelta(0, f.ret[1] % 24, f.ret[2], f.ret[3]))

\* day, hour = divmod(hour, 24), over the three fields read.
DivModHour(f) ==
  IF f.raised # NoError THEN f
  ELSE DayAndTime(f.ret[1] \div 24, timedelta(0, f.ret[1] % 24, f.ret[2], f.ret[3]))

_resolve_time(t) == DivModHour(IntFields(Split(t, ":")))

\* end_time - start_time, each _BASE_DATE plus a timedelta: an addition that
\* leaves the range of datetime raises OverflowError, start_time's first.
_resolve_duration(start, end) ==
  LET start_time == timedelta(start.departure_day, start.departure.hour,
                              start.departure.minute, start.departure.second)
      end_time == timedelta(end.departure_day, end.arrival.hour,
                            end.arrival.minute, end.arrival.second)
  IN IF ~InDatetimeRange(start_time) \/ ~InDatetimeRange(end_time)
     THEN [raised |-> "OverflowError"]
     ELSE [raised |-> NoError,
           ret |-> timedelta(end_time.days - start_time.days, 0, 0,
                             end_time.seconds - start_time.seconds)]

\* Stop(arrival, arrival_day, departure, departure_day, stop_number) from the
\* three fields of a stop_times row.
Stop(a, d, stop_sequence) ==
  IF a.raised # NoError THEN a
  ELSE IF d.raised # NoError THEN d
  ELSE IF int(stop_sequence).raised # NoError THEN [raised |-> "ValueError"]
  ELSE [raised |-> NoError,
        ret |-> [arrival |-> a.ret[2], arrival_day |-> a.ret[1],
                 departure |-> d.ret[2], departure_day |-> d.ret[1],
                 stop_number |-> int(stop_sequence).ret]]

StopOf(arrival_time, departure_time, stop_sequence) ==
  Stop(_resolve_time(arrival_time), _resolve_time(departure_time), stop_sequence)

(***************************************************************************)
(* dict: a sequence of <<key, value>> pairs in insertion order.  Assigning *)
(* to a key that is present replaces its value and keeps its place.        *)
(***************************************************************************)
DictHas(d, k) == \E i \in 1..Len(d) : d[i][1] = k

DictGet(d, k) == d[CHOOSE i \in 1..Len(d) : d[i][1] = k][2]

DictSet(d, k, v) ==
  IF DictHas(d, k)
  THEN [i \in 1..Len(d) |-> IF d[i][1] = k THEN <<k, v>> ELSE d[i]]
  ELSE Append(d, <<k, v>>)

DictKeys(d) == {d[i][1] : i \in 1..Len(d)}
DictValues(d) == {d[i][2] : i \in 1..Len(d)}

(***************************************************************************)
(* _RENAME_MAP, _ALIAS_MAP_RAW and the module-level loop building          *)
(* _ALIAS_MAP.                                                             *)
(***************************************************************************)
\* 'SO. SAN FRANCISCO': 'SOUTH SAN FRANCISCO', 'MT VIEW': 'MOUNTAIN VIEW'
_RENAME_MAP ==
  << << <<"S", "O", ".", " ", "S", "A", "N", " ", "F", "R", "A", "N", "C", "I", "S", "C", "O">>,
        <<"S", "O", "U", "T", "H", " ", "S", "A", "N", " ", "F", "R", "A", "N", "C", "I", "S", "C", "O">> >>,
     << <<"M", "T", " ", "V", "I", "E", "W">>,
        <<"M", "O", "U", "N", "T", "A", "I", "N", " ", "V", "I", "E", "W">> >> >>

\* _RENAME_MAP.get(stop_name, stop_name)
RenameGet(stop_name) ==
  IF DictHas(_RENAME_MAP, stop_name) THEN DictGet(_RENAME_MAP, stop_name) ELSE stop_name

_ALIAS_MAP_RAW ==
  <<
  \* 'SAN FRANCISCO': 'SF', 'SAN FRAN'
  <<<<"S", "A", "N", " ", "F", "R", "A", "N", "C", "I", "S", "C", "O">>,
    <<<<"S", "F">>,
      <<"S", "A", "N", " ", "F", "R", "A", "N">>>>>>,
  \* 'SOUTH SAN FRANCISCO': 'S SAN FRANCISCO', 'SOUTH SF', 'SOUTH SAN FRAN', 'S SAN FRAN', 'S SAN FRANCISCO', 'S SF', 'SO SF', 'SO SAN FRANCISCO', 'SO SAN FRAN'
  <<<<"S", "O", "U", "T", "H", " ", "S", "A", "N", " ", "F", "R", "A", "N", "C", "I", "S", "C", "O">>,
    <<<<"S", " ", "S", "A", "N", " ", "F", "R", "A", "N", "C", "I", "S", "C", "O">>,
      <<"S", "O", "U", "T", "H", " ", "S", "F">>,
      <<"S", "O", "U", "T", "H", " ", "S", "A", "N", " ", "F", "R", "A", "N">>,
      <<"S", " ", "S", "A", "N", " ", "F", "R", "A", "N">>,
      <<"S", " ", "S", "A", "N", " ", "F", "R", "A", "N", "C", "I", "S", "C", "O">>,
      <<"S", " ", "S", "F">>,
      <<"S", "O", " ", "S", "F">>,
      <<"S", "O", " ", "S", "A", "N", " ", "F", "R", "A", "N", "C", "I", "S", "C", "O">>,
      <<"S", "O", " ", "S", "A", "N", " ", "F", "R", "A", "N">>>>>>,
  \* '22ND ST': 'TWENTY-SECOND STREET', 'TWENTY-SECOND ST', '22ND STREET', '22ND', 'TWENTY-SECOND', '22'
  <<<<"2", "2", "N", "D", " ", "S", "T">>,
    <<<<"T", "W", "E", "N", "T", "Y", "-", "S", "E", "C", "O", "N", "D", " ", "S", "T", "R", "E", "E", "T">>,
      <<"T", "W", "E", "N", "T", "Y", "-", "S", "E", "C", "O", "N", "D", " ", "S", "T">>,
      <<"2", "2", "N", "D", " ", "S", "T", "R", "E", "E", "T">>,
      <<"2", "2", "N", "D">>,
      <<"T", "W", "E", "N", "T", "Y", "-", "S", "E", "C", "O", "N", "D">>,
      <<"2", "2">>>>>>,
  \* 'MOUNTAIN VIEW': 'MT VIEW'
  <<<<"M", "O", "U", "N", "T", "A", "I", "N", " ", "V", "I", "E", "W">>,
    <<<<"M", "T", " ", "V", "I", "E", "W">>>>>>
  >>

\* A changed loop: the alias is stored as written, not sanitized.
RECURSIVE AliasInner_raw_key(_, _, _)
AliasInner_raw_key(m, k, v) ==
  IF Len(v) = 0 THEN m
  ELSE AliasInner_raw_key(DictSet(m, v[1], _sanitize_name(k)), k, Tail(v))

\* The inner loop: for x in v: _ALIAS_MAP[_sanitize_name(x)] = _sanitize_name(k)
RECURSIVE AliasInner(_, _, _)
AliasInner(m, k, v) ==
  IF Len(v) = 0 THEN m
  ELSE AliasInner(DictSet(m, _sanitize_name(v[1]), _sanitize_name(k)), k, Tail(v))

RECURSIVE AliasOuter(_, _)
AliasOuter(m, raw) ==
  IF Len(raw) = 0 THEN m
  ELSE AliasOuter(AliasInner(m, raw[1][1], raw[1][2]), Tail(raw))

_ALIAS_MAP == AliasOuter(<<>>, _ALIAS_MAP_RAW)

\* _ALIAS_MAP.get(sanitized, sanitized)
AliasGet(sanitized) ==
  IF DictHas(_ALIAS_MAP, sanitized) THEN DictGet(_ALIAS_MAP, sanitized) ELSE sanitized

(***************************************************************************)
(* Caltrain.load_from_gtfs.  A feed is the archive: whether ZipFile can    *)
(* open it, its name list, and the rows of its six tables in file order.   *)
(* Every stage returns what it built and the exception that stopped it.    *)
(***************************************************************************)
\* folders = set(f.split('/')[0] for f in z.namelist())
Folders(namelist) == {Split(namelist[i], "/")[1] : i \in 1..Len(namelist)}

\* tuple(int(x) for x in r['price'].split('.'))
ParsePrice(price) ==
  LET parts == Split(price, ".")
  IN IF \E i \in 1..Len(parts) : int(parts[i]).raised # NoError THEN [raised |-> "ValueError"]
     ELSE [raised |-> NoError, ret |-> [i \in 1..Len(parts) |-> int(parts[i]).ret]]

\* fare_attributes.txt: fare_lookup[fare_id] = price
RECURSIVE FareLookup(_, _)
FareLookupRow(acc, rows, price) ==
  IF price.raised # NoError THEN [acc EXCEPT !.raised = price.raised]
  ELSE FareLookup([acc EXCEPT !.val = DictSet(@, rows[1].fare_id, price.ret)], Tail(rows))

FareLookup(acc, rows) ==
  IF Len(rows) = 0 THEN acc
  ELSE FareLookupRow(acc, rows, ParsePrice(rows[1].price))

\* A changed loop: a rule whose fare id has no price is dropped.
RECURSIVE FareRules_drop_row(_, _, _)
FareRules_drop_row(acc, fare_lookup, rows) ==
  IF Len(rows) = 0 THEN acc
  ELSE LET r == rows[1]
           k == <<int(r.origin_id).ret, int(r.destination_id).ret>>
       IN IF int(r.origin_id).raised # NoError \/ int(r.destination_id).raised # NoError
          THEN [acc EXCEPT !.raised = "ValueError"]
          ELSE IF ~DictHas(fare_lookup, r.fare_id)
          THEN FareRules_drop_row(acc, fare_lookup, Tail(rows))
          ELSE FareRules_drop_row([acc EXCEPT !.val = DictSet(@, k, DictGet(fare_lookup, r.fare_id))],
                                  fare_lookup, Tail(rows))

\* fare_rules.txt: self._fares[(origin, destination)] = fare_lookup[fare_id]
RECURSIVE FareRules(_, _, _)
FareRules(acc, fare_lookup, rows) ==
  IF Len(rows) = 0 THEN acc
  ELSE LET r == rows[1]
           k == <<int(r.origin_id).ret, int(r.destination_id).ret>>
       IN IF int(r.origin_id).raised # NoError \/ int(r.destination_id).raised # NoError
          THEN [acc EXCEPT !.raised = "ValueError"]
          ELSE IF ~DictHas(fare_lookup, r.fare_id)
          THEN [acc EXCEPT !.raised = "KeyError"]
          ELSE FareRules([acc EXCEPT !.val = DictSet(@, k, DictGet(fare_lookup, r.fare_id))],
                         fare_lookup, Tail(rows))

\* set(i for i, j in enumerate(r[1:8]) if int(j) == 1)
CalendarDays(flags) == {i \in 0..6 : int(flags[i + 1]).ret = 1}

\* calendar.txt: self._service_windows[r[0]] = ServiceWindow(start, end, days).
\* A date strptime rejects, or a day flag that is no integer, raises
\* ValueError.
RECURSIVE Calendar(_, _)
CalendarRow(acc, rows, start, end) ==
  IF start.raised # NoError THEN [acc EXCEPT !.raised = start.raised]
  ELSE IF end.raised # NoError THEN [acc EXCEPT !.raised = end.raised]
  ELSE IF \E i \in 1..Len(rows[1].days) : int(rows[1].days[i]).raised # NoError
  THEN [acc EXCEPT !.raised = "ValueError"]
  ELSE Calendar([acc EXCEPT !.val =
                   DictSet(@, rows[1].service_id,
                           [start |-> start.ret, end |-> end.ret,
                            days |-> CalendarDays(rows[1].days)])],
                Tail(rows))

Calendar(acc, rows) ==
  IF Len(rows) = 0 THEN acc
  ELSE CalendarRow(acc, rows, ParseDate(rows[1].start_date), ParseDate(rows[1].end_date))

CALTRAIN_SUFFIX == <<" ", "C", "a", "l", "t", "r", "a", "i", "n">>
CALTRAIN_STATION_SUFFIX ==
  <<" ", "C", "a", "l", "t", "r", "a", "i", "n", " ", "S", "t", "a", "t", "i", "o", "n">>

\* What (.+) can match: at least one character, none of them a line feed.
DotPlus(g) == Len(g) > 0 /\ \A i \in 1..Len(g) : g[i] # "\n"

\* Where $ matches: at the end of the string, or before its final line feed.
\* Neither suffix ends in a line feed, so a string that ends in one can only
\* match before it.
BeforeFinalNewline(s) ==
  IF Len(s) > 0 /\ s[Len(s)] = "\n" THEN SubSeq(s, 1, Len(s) - 1) ELSE s

\* _STATIONS_RE.match(s) for ^(.+) Caltrain( Station)?$ : group 1 is what
\* precedes the suffix.
_STATIONS_RE(s) ==
  LET b == BeforeFinalNewline(s)
      long == SubSeq(b, 1, Len(b) - Len(CALTRAIN_STATION_SUFFIX))
      short == SubSeq(b, 1, Len(b) - Len(CALTRAIN_SUFFIX))
  IN IF EndsWith(b, CALTRAIN_STATION_SUFFIX) /\ DotPlus(long)
     THEN [matched |-> TRUE, group1 |-> long]
     ELSE IF EndsWith(b, CALTRAIN_SUFFIX) /\ DotPlus(short)
     THEN [matched |-> TRUE, group1 |-> short]
     ELSE [matched |-> FALSE, group1 |-> <<>>]

\* Station(name, zone)
Station(name, zone) == [name |-> name, zone |-> zone]

\* stops.txt: a row with a non-numeric stop id is skipped; .group(1) of a
\* failed match raises AttributeError.
RECURSIVE Stops(_, _)
Stops(acc, rows) ==
  IF Len(rows) = 0 THEN acc
  ELSE LET r == rows[1]
           m == _STATIONS_RE(r.stop_name)
           stop_name == Upper(Strip(m.group1))
       IN IF ~IsDigit(r.stop_id) THEN Stops(acc, Tail(rows))
          ELSE IF ~m.matched THEN [acc EXCEPT !.raised = "AttributeError"]
          ELSE IF int(r.zone_id).raised # NoError THEN [acc EXCEPT !.raised = "ValueError"]
          ELSE Stops([acc EXCEPT !.val =
                        DictSet(@, r.stop_id,
                                Station(Title(RenameGet(stop_name)), int(r.zone_id).ret))],
                     Tail(rows))

\* The values of the TransitType enum and the names of its members.
TransitTypeMembers ==
  << << <<"b", "u">>, "baby_bullet" >>,
     << <<"l", "i">>, "limited" >>,
     << <<"l", "o">>, "local" >>,
     << <<"t", "a", "s", "j">>, "tamien_sanjose" >> >>

\* The values of the Direction enum.
DirectionMembers == << <<0, "north">>, <<1, "south">> >>

\* trips.txt: self.trains[trip_id] = Train(name, kind, direction, {}, window).
\* An unknown route or direction raises ValueError, an unknown service id
\* KeyError.
RECURSIVE Trips(_, _, _)
Trips(acc, windows, rows) ==
  IF Len(rows) = 0 THEN acc
  ELSE LET r == rows[1]
           train_dir == int(r.direction_id).ret
           route == Strip(Split(Lower(r.route_id), "-")[1])
       IN IF int(r.direction_id).raised # NoError THEN [acc EXCEPT !.raised = "ValueError"]
          ELSE IF ~DictHas(TransitTypeMembers, route) THEN [acc EXCEPT !.raised = "ValueError"]
          ELSE IF ~DictHas(DirectionMembers, train_dir)
          THEN [acc EXCEPT !.raised = "ValueError"]
          ELSE IF ~DictHas(windows, r.service_id) THEN [acc EXCEPT !.raised = "KeyError"]
          ELSE Trips([acc EXCEPT !.val =
                        DictSet(@, r.trip_id,
                                [name |-> r.trip_id,
                                 kind |-> DictGet(TransitTypeMembers, route),
                                 direction |-> DictGet(DirectionMembers, train_dir),
                                 stops |-> <<>>,
                                 service_window |-> DictGet(windows, r.service_id)])],
                     windows, Tail(rows))

\* stop_times.txt: train.stops[self.stations[stop_id]] = Stop(...).  An
\* unknown trip id raises KeyError; the Stop on the right is built before
\* the station on the left is looked up, so a time or stop_sequence that
\* cannot be read raises before an unknown stop id raises KeyError.
RECURSIVE StopTimes(_, _, _)
StopTimesRow(acc, stops, rows, stop) ==
  LET r == rows[1]
      train == DictGet(acc.val, r.trip_id)
  IN IF ~DictHas(acc.val, r.trip_id) THEN [acc EXCEPT !.raised = "KeyError"]
     ELSE IF stop.raised # NoError THEN [acc EXCEPT !.raised = stop.raised]
     ELSE IF ~DictHas(stops, r.stop_id) THEN [acc EXCEPT !.raised = "KeyError"]
     ELSE StopTimes([acc EXCEPT !.val =
                       DictSet(@, r.trip_id,
                               [train EXCEPT !.stops =
                                  DictSet(@, DictGet(stops, r.stop_id), stop.ret)])],
                    stops, Tail(rows))

StopTimes(acc, stops, rows) ==
  IF Len(rows) = 0 THEN acc
  ELSE StopTimesRow(acc, stops, rows,
                    StopOf(rows[1].arrival_time, rows[1].departure_time,
                           rows[1].stop_sequence))

\* '_'.join(re.split('[^A-Za-z0-9]', v.name)).lower()
DisplayKey(name) == Lower(Join(<<"_">>, SplitNonAlnum(name)))

\* self.stations, for display: keyed by DisplayKey of each station's name.
RECURSIVE DisplayStations(_, _)
DisplayStations(m, items) ==
  IF Len(items) = 0 THEN m
  ELSE DisplayStations(DictSet(m, DisplayKey(items[1][2].name), items[1][2]), Tail(items))

\* self._unambiguous_stations: keyed by the display key without '_'.
RECURSIVE UnambiguousStations(_, _)
UnambiguousStations(m, items) ==
  IF Len(items) = 0 THEN m
  ELSE UnambiguousStations(DictSet(m, Replace(items[1][1], <<"_">>, <<>>), items[1][2]),
                           Tail(items))

\* One pass of load_from_gtfs over a feed: what it assigned to each
\* attribute before it returned or raised.  `cleared` tells whether the
\* pass got past ZipFile(gtfs_path) and reset the four collections;
\* `version_set` and `indexed` tell whether self.version and
\* self._unambiguous_stations were assigned.  Each step below takes the
\* attributes as the steps before it left them, and passes them on
\* untouched once one of those has raised.
NotLoaded ==
  [raised |-> NoError, cleared |-> FALSE,
   version_set |-> FALSE, version |-> <<>>,
   trains |-> <<>>, stations |-> <<>>,
   service_windows |-> <<>>, fares |-> <<>>,
   indexed |-> FALSE, unambiguous_stations |-> <<>>]

\* An empty dictionary under construction.
NoRows == [val |-> <<>>, raised |-> NoError]

\* self.version = z.namelist() folders' only member
SetVersion(s, folders) ==
  IF Cardinality(folders) > 1 THEN [s EXCEPT !.raised = "UnexpectedGTFSLayoutError"]
  ELSE IF folders = {} THEN [s EXCEPT !.raised = "IndexError"]
  ELSE [s EXCEPT !.version_set = TRUE, !.version = CHOOSE f \in folders : TRUE]

\* ZipFile(gtfs_path), the four clear() calls, the version
Open(feed) ==
  IF ~feed.is_zip THEN [NotLoaded EXCEPT !.raised = "BadZipFile"]
  ELSE SetVersion([NotLoaded EXCEPT !.cleared = TRUE], Folders(feed.namelist))

\* fare_rules.txt over the fare_lookup read before it
FareRulesOf(fare_lookup, rows) ==
  IF fare_lookup.raised # NoError THEN [NoRows EXCEPT !.raised = fare_lookup.raised]
  ELSE FareRules(NoRows, fare_lookup.val, rows)

\* What reading a file leaves in the attribute it fills, and the exception
\* the loop raised, if any.
Assign(s, attribute, read) == [s EXCEPT ![attribute] = read.val, !.raised = read.raised]

LoadFares(s, feed) ==
  IF s.raised # NoError THEN s
  ELSE Assign(s, "fares",
              FareRulesOf(FareLookup(NoRows, feed.fare_attributes), feed.fare_rules))

LoadCalendar(s, feed) ==
  IF s.raised # NoError THEN s
  ELSE Assign(s, "service_windows", Calendar(NoRows, feed.calendar))

LoadStops(s, feed) ==
  IF s.raised # NoError THEN s
  ELSE Assign(s, "stations", Stops(NoRows, feed.stops))

LoadTrips(s, feed) ==
  IF s.raised # NoError THEN s
  ELSE Assign(s, "trains", Trips(NoRows, s.service_windows, feed.trips))

LoadStopTimes(s, feed) ==
  IF s.raised # NoError THEN s
  ELSE Assign(s, "trains",
              StopTimes([NoRows EXCEPT !.val = s.trains], s.stations, feed.stop_times))

SetIndex(s, display) ==
  [s EXCEPT !.stations = display,
            !.unambiguous_stations = UnambiguousStations(<<>>, display),
            !.indexed = TRUE]

\* self.stations keyed for display, then self._unambiguous_stations
LoadIndex(s) ==
  IF s.raised # NoError THEN s
  ELSE SetIndex(s, DisplayStations(<<>>, s.stations))

LoadPass(feed) ==
  LoadIndex(
    LoadStopTimes(
      LoadTrips(
        LoadStops(
          LoadCalendar(
            LoadFares(Open(feed), feed), feed), feed), feed), feed))

(***************************************************************************)
(* The feeds the model loads.  Opaque identifiers (fare, service and trip  *)
(* ids) are plain strings; every field the loader parses or matches is a   *)
(* character sequence.                                                     *)
(***************************************************************************)
\* v1/stops.txt, v1/trips.txt
NamelistOneRoot ==
  <<<<"v", "1", "/", "s", "t", "o", "p", "s", ".", "t", "x", "t">>,
    <<"v", "1", "/", "t", "r", "i", "p", "s", ".", "t", "x", "t">>>>

\* v1/stops.txt, v2/stops.txt
NamelistTwoRoots ==
  <<<<"v", "1", "/", "s", "t", "o", "p", "s", ".", "t", "x", "t">>,
    <<"v", "2", "/", "s", "t", "o", "p", "s", ".", "t", "x", "t">>>>

\* fare_id,price: f1,3.75  f2,6.00  f3,10.50
FareAttributes ==
  <<[fare_id |-> "f1",
    price |-> <<"3", ".", "7", "5">>],
   [fare_id |-> "f2",
    price |-> <<"6", ".", "0", "0">>],
   [fare_id |-> "f3",
    price |-> <<"1", "0", ".", "5", "0">>]>>

\* fare_id,price: f1,4.00  f2,6.25  f3,10.50
FareAttributesRaised ==
  <<[fare_id |-> "f1",
    price |-> <<"4", ".", "0", "0">>],
   [fare_id |-> "f2",
    price |-> <<"6", ".", "2", "5">>],
   [fare_id |-> "f3",
    price |-> <<"1", "0", ".", "5", "0">>]>>

\* fare_id,origin_id,destination_id: f1,1,1  f2,1,3  f3,1,6  f1,3,3
\* Zone 3 to zone 1 and every pair from zone 6 have no rule.
FareRulesRows ==
  <<[fare_id |-> "f1",
    origin_id |-> <<"1">>,
    destination_id |-> <<"1">>],
   [fare_id |-> "f2",
    origin_id |-> <<"1">>,
    destination_id |-> <<"3">>],
   [fare_id |-> "f3",
    origin_id |-> <<"1">>,
    destination_id |-> <<"6">>],
   [fare_id |-> "f1",
    origin_id |-> <<"3">>,
    destination_id |-> <<"3">>]>>

\* f1,1,1  f9,3,1  f2,1,3: the second rule names a fare id with no price.
FareRulesDangling ==
  <<[fare_id |-> "f1",
    origin_id |-> <<"1">>,
    destination_id |-> <<"1">>],
   [fare_id |-> "f9",
    origin_id |-> <<"3">>,
    destination_id |-> <<"1">>],
   [fare_id |-> "f2",
    origin_id |-> <<"1">>,
    destination_id |-> <<"3">>]>>

\* service_id,monday..sunday,start_date,end_date:
\*   wk,1,1,1,1,1,0,0,20190801,20191231   we,0,0,0,0,0,1,1,20190801,20191231
CalendarRows ==
  <<[service_id |-> "wk",
    days |-> <<<<"1">>, <<"1">>, <<"1">>, <<"1">>, <<"1">>, <<"0">>, <<"0">>>>,
    start_date |-> <<"2", "0", "1", "9", "0", "8", "0", "1">>,
    end_date |-> <<"2", "0", "1", "9", "1", "2", "3", "1">>],
   [service_id |-> "we",
    days |-> <<<<"0">>, <<"0">>, <<"0">>, <<"0">>, <<"0">>, <<"1">>, <<"1">>>>,
    start_date |-> <<"2", "0", "1", "9", "0", "8", "0", "1">>,
    end_date |-> <<"2", "0", "1", "9", "1", "2", "3", "1">>]>>

\* hol,0,0,0,0,0,0,1,20190230,20191231: a service whose start date is no
\* day of the calendar.
CalendarBadDateRow ==
  <<[service_id |-> "hol",
    days |-> <<<<"0">>, <<"0">>, <<"0">>, <<"0">>, <<"0">>, <<"0">>, <<"1">>>>,
    start_date |-> <<"2", "0", "1", "9", "0", "2", "3", "0">>,
    end_date |-> <<"2", "0", "1", "9", "1", "2", "3", "1">>]>>

\* stop_id,stop_name,zone_id: the two platforms of San Francisco carry the
\* same name and zone.
\*   11,San Francisco Caltrain,1   12,San Francisco Caltrain,1
\*   21,22nd St Caltrain,1   41,So. San Francisco Caltrain Station,1
\*   51,Mt View Caltrain,3   61,Gilroy Caltrain,6
StopsRows ==
  <<[stop_id |-> <<"1", "1">>,
    stop_name |-> <<"S", "a", "n", " ", "F", "r", "a", "n", "c", "i", "s", "c", "o", " ", "C", "a", "l", "t", "r", "a", "i", "n">>,
    zone_id |-> <<"1">>],
   [stop_id |-> <<"1", "2">>,
    stop_name |-> <<"S", "a", "n", " ", "F", "r", "a", "n", "c", "i", "s", "c", "o", " ", "C", "a", "l", "t", "r", "a", "i", "n">>,
    zone_id |-> <<"1">>],
   [stop_id |-> <<"2", "1">>,
    stop_name |-> <<"2", "2", "n", "d", " ", "S", "t", " ", "C", "a", "l", "t", "r", "a", "i", "n">>,
    zone_id |-> <<"1">>],
   [stop_id |-> <<"4", "1">>,
    stop_name |-> <<"S", "o", ".", " ", "S", "a", "n", " ", "F", "r", "a", "n", "c", "i", "s", "c", "o", " ", "C", "a", "l", "t", "r", "a", "i", "n", " ", "S", "t", "a", "t", "i", "o", "n">>,
    zone_id |-> <<"1">>],
   [stop_id |-> <<"5", "1">>,
    stop_name |-> <<"M", "t", " ", "V", "i", "e", "w", " ", "C", "a", "l", "t", "r", "a", "i", "n">>,
    zone_id |-> <<"3">>],
   [stop_id |-> <<"6", "1">>,
    stop_name |-> <<"G", "i", "l", "r", "o", "y", " ", "C", "a", "l", "t", "r", "a", "i", "n">>,
    zone_id |-> <<"6">>]>>

\* ctgi,Gilroy Caltrain Station,6: a row whose stop id is not numeric.
StopsNonNumericRow ==
  <<[stop_id |-> <<"c", "t", "g", "i">>,
    stop_name |-> <<"G", "i", "l", "r", "o", "y", " ", "C", "a", "l", "t", "r", "a", "i", "n", " ", "S", "t", "a", "t", "i", "o", "n">>,
    zone_id |-> <<"6">>]>>

\* 99,Diridon Shuttle,4: a row whose name does not match _STATIONS_RE.
StopsUnmatchedRow ==
  <<[stop_id |-> <<"9", "9">>,
    stop_name |-> <<"D", "i", "r", "i", "d", "o", "n", " ", "S", "h", "u", "t", "t", "l", "e">>,
    zone_id |-> <<"4">>]>>

\* trip_id,route_id,direction_id,service_id:
\*   101,Lo-130,1,wk   103,Lo-130,1,wk   102,Bu-130,0,wk   401,Li-130,0,we
TripsRows ==
  <<[trip_id |-> "101",
    route_id |-> <<"L", "o", "-", "1", "3", "0">>,
    direction_id |-> <<"1">>,
    service_id |-> "wk"],
   [trip_id |-> "103",
    route_id |-> <<"L", "o", "-", "1", "3", "0">>,
    direction_id |-> <<"1">>,
    service_id |-> "wk"],
   [trip_id |-> "102",
    route_id |-> <<"B", "u", "-", "1", "3", "0">>,
    direction_id |-> <<"0">>,
    service_id |-> "wk"],
   [trip_id |-> "401",
    route_id |-> <<"L", "i", "-", "1", "3", "0">>,
    direction_id |-> <<"0">>,
    service_id |-> "we"]>>

\* 901,Li-130,0,xx: a trip whose service id is not in calendar.txt.
TripsUnknownServiceRow ==
  <<[trip_id |-> "901",
    route_id |-> <<"L", "i", "-", "1", "3", "0">>,
    direction_id |-> <<"0">>,
    service_id |-> "xx"]>>

\* trip_id,arrival_time,departure_time,stop_id,stop_sequence:
\*   101,22:00:00,22:00:00,11,1
\*   101,23:58:00,24:02:00,51,2
\*   103,24:05:00,24:05:00,11,1
\*   103,25:10:00,25:10:00,51,2
\*   102,06:00:00,06:00:00,51,1
\*   102,07:10:00,07:10:00,12,2
\*   401,09:00:00,09:00:00,61,1
\*   401,10:30:00,10:30:00,41,2
\* Train 101 arrives at Mt View before midnight and leaves after it; train 103
\* leaves San Francisco after midnight of the same service day; the weekend
\* train 401 serves two stations no other train serves; no train stops at
\* 22nd St.
StopTimesRows ==
  <<[trip_id |-> "101",
    arrival_time |-> <<"2", "2", ":", "0", "0", ":", "0", "0">>,
    departure_time |-> <<"2", "2", ":", "0", "0", ":", "0", "0">>,
    stop_id |-> <<"1", "1">>,
    stop_sequence |-> <<"1">>],
   [trip_id |-> "101",
    arrival_time |-> <<"2", "3", ":", "5", "8", ":", "0", "0">>,
    departure_time |-> <<"2", "4", ":", "0", "2", ":", "0", "0">>,
    stop_id |-> <<"5", "1">>,
    stop_sequence |-> <<"2">>],
   [trip_id |-> "103",
    arrival_time |-> <<"2", "4", ":", "0", "5", ":", "0", "0">>,
    departure_time |-> <<"2", "4", ":", "0", "5", ":", "0", "0">>,
    stop_id |-> <<"1", "1">>,
    stop_sequence |-> <<"1">>],
   [trip_id |-> "103",
    arrival_time |-> <<"2", "5", ":", "1", "0", ":", "0", "0">>,
    departure_time |-> <<"2", "5", ":", "1", "0", ":", "0", "0">>,
    stop_id |-> <<"5", "1">>,
    stop_sequence |-> <<"2">>],
   [trip_id |-> "102",
    arrival_time |-> <<"0", "6", ":", "0", "0", ":", "0", "0">>,
    departure_time |-> <<"0", "6", ":", "0", "0", ":", "0", "0">>,
    stop_id |-> <<"5", "1">>,
    stop_sequence |-> <<"1">>],
   [trip_id |-> "102",
    arrival_time |-> <<"0", "7", ":", "1", "0", ":", "0", "0">>,
    departure_time |-> <<"0", "7", ":", "1", "0", ":", "0", "0">>,
    stop_id |-> <<"1", "2">>,
    stop_sequence |-> <<"2">>],
   [trip_id |-> "401",
    arrival_time |-> <<"0", "9", ":", "0", "0", ":", "0", "0">>,
    departure_time |-> <<"0", "9", ":", "0", "0", ":", "0", "0">>,
    stop_id |-> <<"6", "1">>,
    stop_sequence |-> <<"1">>],
   [trip_id |-> "401",
    arrival_time |-> <<"1", "0", ":", "3", "0", ":", "0", "0">>,
    departure_time |-> <<"1", "0", ":", "3", "0", ":", "0", "0">>,
    stop_id |-> <<"4", "1">>,
    stop_sequence |-> <<"2">>]>>

\* 401,10:45:00,10:45:00,ctgi,3: a row whose stop id is the non-numeric one.
StopTimesFilteredStopRow ==
  <<[trip_id |-> "401",
    arrival_time |-> <<"1", "0", ":", "4", "5", ":", "0", "0">>,
    departure_time |-> <<"1", "0", ":", "4", "5", ":", "0", "0">>,
    stop_id |-> <<"c", "t", "g", "i">>,
    stop_sequence |-> <<"3">>]>>

\* 401,70389528:30:00,70389528:30:00,41,2: a second row for train 401 at
\* South San Francisco, 2932897 days after the service day.
StopTimesFarDayRow ==
  <<[trip_id |-> "401",
    arrival_time |-> <<"7", "0", "3", "8", "9", "5", "2", "8", ":", "3", "0", ":", "0", "0">>,
    departure_time |-> <<"7", "0", "3", "8", "9", "5", "2", "8", ":", "3", "0", ":", "0", "0">>,
    stop_id |-> <<"4", "1">>,
    stop_sequence |-> <<"2">>]>>


\* The feed an option record describes.  A sound feed has one root, a price
\* for every rule, a calendar row for every trip and only stops that match;
\* each option plants one defect or one variation (other prices, a line
\* without the 22nd St stop).
Feed(o) ==
  [is_zip |-> o.is_zip,
   namelist |-> IF o.roots = 1 THEN NamelistOneRoot ELSE NamelistTwoRoots,
   fare_attributes |-> IF o.prices = "base" THEN FareAttributes ELSE FareAttributesRaised,
   fare_rules |-> IF o.rules = "sound" THEN FareRulesRows ELSE FareRulesDangling,
   calendar |-> IF o.calendar = "sound" THEN CalendarRows
                ELSE CalendarRows \o CalendarBadDateRow,
   stops |-> CASE o.stops = "sound" -> StopsRows
               [] o.stops = "no_22nd_st" -> SubSeq(StopsRows, 1, 2) \o SubSeq(StopsRows, 4, 6)
               [] o.stops = "non_numeric" -> StopsRows \o StopsNonNumericRow
               [] o.stops = "unmatched" -> StopsRows \o StopsUnmatchedRow,
   trips |-> IF o.trips = "sound" THEN TripsRows
             ELSE TripsRows \o TripsUnknownServiceRow,
   stop_times |-> CASE o.stop_times = "sound" -> StopTimesRows
                    [] o.stop_times = "filtered_stop" ->
                         StopTimesRows \o StopTimesFilteredStopRow
                    [] o.stop_times = "far_day" -> StopTimesRows \o StopTimesFarDayRow]

SoundFeed ==
  [is_zip |-> TRUE, roots |-> 1, prices |-> "base", rules |-> "sound",
   calendar |-> "sound", stops |-> "sound", trips |-> "sound", stop_times |-> "sound"]

FeedOptions ==
  {SoundFeed,
   [SoundFeed EXCEPT !.prices = "raised"],
   [SoundFeed EXCEPT !.stops = "no_22nd_st"],
   [SoundFeed EXCEPT !.is_zip = FALSE],
   [SoundFeed EXCEPT !.roots = 2],
   [SoundFeed EXCEPT !.rules = "dangling"],
   [SoundFeed EXCEPT !.calendar = "bad_date"],
   [SoundFeed EXCEPT !.stops = "non_numeric"],
   [SoundFeed EXCEPT !.stops = "unmatched"],
   [SoundFeed EXCEPT !.trips = "unknown_service"],
   [SoundFeed EXCEPT !.stop_times = "filtered_stop"],
   [SoundFeed EXCEPT !.stops = "non_numeric", !.stop_times = "filtered_stop"],
   [SoundFeed EXCEPT !.stop_times = "far_day"],
   [SoundFeed EXCEPT !.prices = "raised", !.trips = "unknown_service"]}

\* LoadPass of every feed, evaluated once.
LoadOutcome == [o \in FeedOptions |-> LoadPass(Feed(o))]

(***************************************************************************)
(* The queries.  Each returns a record: `raised` names the exception (or   *)
(* NoError), `exc` is the exception's argument, `ret` the returned value.  *)
(***************************************************************************)
\* A changed lookup: the exception carries the sanitized key.
get_station_sanitized_exc(name) ==
  LET sanitized == _sanitize_name(name)
      resolved == AliasGet(sanitized)
  IN IF DictHas(unambiguous_stations, resolved)
     THEN [raised |-> NoError, ret |-> DictGet(unambiguous_stations, resolved)]
     ELSE [raised |-> "UnknownStationError", exc |-> resolved]

get_station(name) ==
  LET sanitized == _sanitize_name(name)
      resolved == AliasGet(sanitized)
  IN IF DictHas(unambiguous_stations, resolved)
     THEN [raised |-> NoError, ret |-> DictGet(unambiguous_stations, resolved)]
     ELSE [raised |-> "UnknownStationError", exc |-> name]

\* An argument is a str or a Station.
NameArg(s) == [type |-> "str", value |-> s]
StationArg(st) == [type |-> "Station", value |-> st]

\* self.get_station(a) if not isinstance(a, Station) else a
ResolveArg(x) ==
  IF x.type = "Station" THEN [raised |-> NoError, ret |-> x.value]
  ELSE get_station(x.value)

\* A changed lookup: a pair without a fare falls back on the reversed pair.
fare_between_symmetric(a, b) ==
  LET ra == ResolveArg(a)
      rb == ResolveArg(b)
      k == <<ra.ret.zone, rb.ret.zone>>
      rev == <<rb.ret.zone, ra.ret.zone>>
  IN IF ra.raised # NoError THEN ra
     ELSE IF rb.raised # NoError THEN rb
     ELSE IF DictHas(fares, k) THEN [raised |-> NoError, ret |-> DictGet(fares, k)]
     ELSE IF DictHas(fares, rev) THEN [raised |-> NoError, ret |-> DictGet(fares, rev)]
     ELSE [raised |-> "KeyError", exc |-> k]

fare_between(a, b) ==
  LET ra == ResolveArg(a)
      rb == ResolveArg(b)
      k == <<ra.ret.zone, rb.ret.zone>>
  IN IF ra.raised # NoError THEN ra
     ELSE IF rb.raised # NoError THEN rb
     ELSE IF DictHas(fares, k) THEN [raised |-> NoError, ret |-> DictGet(fares, k)]
     ELSE [raised |-> "KeyError", exc |-> k]

\* stop_a.departure < after.time(): the train has left.
HasLeft(stop_a, after) == TimeLT(stop_a.departure, after.time)

\* possibilities.append(Trip(..., duration=_resolve_duration(stop_a, stop_b),
\* ...)) before the trips of the trains that follow: an exception of
\* _resolve_duration leaves the loop.
AppendTrip(stop_a, stop_b, train, duration, rest) ==
  IF duration.raised # NoError THEN duration
  ELSE IF rest.raised # NoError THEN rest
  ELSE [raised |-> NoError,
        ret |-> <<[departure |-> stop_a.departure,
                   arrival |-> stop_b.arrival,
                   duration |-> duration.ret,
                   train |-> train]>> \o rest.ret]

\* The loop of next_trips over self.trains.items(), in insertion order.
RECURSIVE Possibilities(_, _, _, _)
Possibilities(items, a, b, after) ==
  IF Len(items) = 0 THEN [raised |-> NoError, ret |-> <<>>]
  ELSE LET train == items[1][2]
           sw == train.service_window
           stop_a == DictGet(train.stops, a)
           stop_b == DictGet(train.stops, b)
           rest == Possibilities(Tail(items), a, b, after)
       IN IF \/ DateLT(after.date, sw.start)
             \/ DateLT(sw.end, after.date)
             \/ Weekday(after.date) \notin sw.days
             \/ ~DictHas(train.stops, a)
             \/ ~DictHas(train.stops, b)
          THEN rest
          ELSE IF stop_a.stop_number > stop_b.stop_number THEN rest
          ELSE IF HasLeft(stop_a, after) THEN rest
          ELSE AppendTrip(stop_a, stop_b, train, _resolve_duration(stop_a, stop_b), rest)

\* list.sort(key=lambda x: x.departure): stable, ascending.
RECURSIVE InsertByDeparture(_, _)
InsertByDeparture(x, s) ==
  IF Len(s) = 0 THEN <<x>>
  ELSE IF TimeLT(x.departure, s[1].departure) THEN <<x>> \o s
  ELSE <<s[1]>> \o InsertByDeparture(x, Tail(s))

\* A changed sort: the list is left in the order of the loop.
SortByDeparture_unsorted(s) == s

RECURSIVE SortByDeparture(_)
SortByDeparture(s) ==
  IF Len(s) = 0 THEN <<>>
  ELSE InsertByDeparture(s[Len(s)], SortByDeparture(SubSeq(s, 1, Len(s) - 1)))

\* possibilities.sort(...) and return, reached when the loop raised nothing.
SortTrips(possibilities) ==
  IF possibilities.raised # NoError THEN possibilities
  ELSE [raised |-> NoError, ret |-> SortByDeparture(possibilities.ret)]

next_trips(a, b, after) ==
  LET ra == ResolveArg(a)
      rb == ResolveArg(b)
  IN IF ra.raised # NoError THEN ra
     ELSE IF rb.raised # NoError THEN rb
     ELSE SortTrips(Possibilities(trains, ra.ret, rb.ret, after))

(***************************************************************************)
(* The inputs of the queries.                                              *)
(***************************************************************************)
\* 'sf', 'Mt View', 'so sf', 'nonexistent place': the first three resolve
\* through the alias table and the renamed stations.
QueryNames ==
  {<<"s", "f">>,
   <<"M", "t", " ", "V", "i", "e", "w">>,
   <<"s", "o", " ", "s", "f">>,
   <<"n", "o", "n", "e", "x", "i", "s", "t", "e", "n", "t", " ", "p", "l", "a", "c", "e">>}

\* Station('Gilroy', 6), which the feeds hold, and Station('Nowhere', 9),
\* which no feed holds.
QueryStations ==
  {Station(<<"G", "i", "l", "r", "o", "y">>, 6),
   Station(<<"N", "o", "w", "h", "e", "r", "e">>, 9)}

\* The stations asked for, by name or as Station values.
QueryArgs == {NameArg(n) : n \in QueryNames} \cup {StationArg(st) : st \in QueryStations}

\* Every canonical name and alias of _ALIAS_MAP_RAW.
AliasTableNames ==
  UNION {{_ALIAS_MAP_RAW[i][1]} \cup {_ALIAS_MAP_RAW[i][2][j] : j \in 1..Len(_ALIAS_MAP_RAW[i][2])}
         : i \in 1..Len(_ALIAS_MAP_RAW)}

\* 'twenty-second st.' is an alias written with punctuation, 'Gilroy Station'
\* a name with the noise word.
GetStationNames ==
  AliasTableNames \cup QueryNames
  \cup {<<"t", "w", "e", "n", "t", "y", "-", "s", "e", "c", "o", "n", "d", " ", "s", "t", ".">>,
        <<"G", "i", "l", "r", "o", "y", " ", "S", "t", "a", "t", "i", "o", "n">>}

Date(y, m, d) == [year |-> y, month |-> m, day |-> d]
Time(h, m, s) == [hour |-> h, minute |-> m, second |-> s]
Instant(d, t) == [date |-> d, time |-> t]

\* 2019-08-19 is a Monday and 2019-08-24 a Saturday inside both service
\* windows; 2019-08-01 (a Thursday) and 2019-12-31 (a Tuesday) are their
\* first and last days; 2019-07-31 and 2020-01-01 (Wednesdays) lie outside.
\* The instants the system clock shows: a Monday evening at which train 101
\* is about to leave San Francisco, and the Saturday morning after it.
ClockSamples ==
  {Instant(Date(2019, 8, 19), Time(22, 0, 0)),
   Instant(Date(2019, 8, 24), Time(9, 0, 0))}

\* datetime comparison: i is earlier than j.
InstantLT(i, j) ==
  \/ DateLT(i.date, j.date)
  \/ i.date = j.date /\ TimeLT(i.time, j.time)

\* The clock when the module was imported, for the helpers checked alone.
ImportedAt == CHOOSE i \in ClockSamples : \A j \in ClockSamples : i = j \/ InstantLT(i, j)

AfterSamples ==
  {Instant(Date(2019, 8, 19), Time(0, 0, 0)),
   Instant(Date(2019, 8, 19), Time(22, 0, 0)),
   Instant(Date(2019, 8, 19), Time(22, 0, 1)),
   Instant(Date(2019, 8, 24), Time(9, 0, 0)),
   Instant(Date(2019, 8, 1), Time(0, 0, 0)),
   Instant(Date(2019, 12, 31), Time(0, 0, 0)),
   Instant(Date(2019, 7, 31), Time(0, 0, 0)),
   Instant(Date(2020, 1, 1), Time(0, 0, 0))}

(***************************************************************************)
(* The instance: Caltrain.__init__ and the four public methods.            *)
(***************************************************************************)
\* The attributes after one pass of load_from_gtfs: a pass that raised at
\* ZipFile assigned nothing; a later failure leaves what the pass had
\* assigned and keeps the old value of what it had not reached.
Loaded(o, r) ==
  /\ last' = [op |-> "load_from_gtfs", feed |-> o, raised |-> r.raised]
  /\ trains' = (IF r.cleared THEN r.trains ELSE trains)
  /\ stations' = (IF r.cleared THEN r.stations ELSE stations)
  /\ service_windows' = (IF r.cleared THEN r.service_windows ELSE service_windows)
  /\ fares' = (IF r.cleared THEN r.fares ELSE fares)
  /\ version' = (IF r.version_set THEN r.version ELSE version)
  /\ unambiguous_stations' =
       (IF r.indexed THEN r.unambiguous_stations ELSE unambiguous_stations)

\* The attributes of a new instance whose first load, of feed o, left r.
Constructed(o, r) ==
  /\ r.raised = NoError
  /\ version = r.version
  /\ trains = r.trains
  /\ stations = r.stations
  /\ unambiguous_stations = r.unambiguous_stations
  /\ service_windows = r.service_windows
  /\ fares = r.fares
  /\ last = [op |-> "__init__", feed |-> o, raised |-> NoError]

\* Caltrain(gtfs_path): the instance exists only if its first load returned.
Init ==
  /\ \E o \in FeedOptions : Constructed(o, LoadOutcome[o])
  /\ after_default \in ClockSamples
  /\ now = after_default

\* The caller is between two calls.
Idle == [op |-> "idle"]

LoadFromGtfs(o) ==
  /\ last = Idle
  /\ Loaded(o, LoadOutcome[o])
  /\ UNCHANGED clock

GetStation(name) ==
  /\ last = Idle
  /\ last' = [op |-> "get_station", name |-> name, result |-> get_station(name)]
  /\ UNCHANGED <<index, clock>>

FareBetween(a, b) ==
  /\ last = Idle
  /\ last' = [op |-> "fare_between", a |-> a, b |-> b, result |-> fare_between(a, b)]
  /\ UNCHANGED <<index, clock>>

NextTrips(a, b, after) ==
  /\ last = Idle
  /\ last' = [op |-> "next_trips", a |-> a, b |-> b, after |-> after, default |-> FALSE,
              result |-> next_trips(a, b, after)]
  /\ UNCHANGED <<index, clock>>

\* next_trips(a, b): `after` is the default bound in the signature.
NextTripsDefault(a, b) ==
  /\ last = Idle
  /\ last' = [op |-> "next_trips", a |-> a, b |-> b, after |-> after_default,
              default |-> TRUE, result |-> next_trips(a, b, after_default)]
  /\ UNCHANGED <<index, clock>>

\* Time passes between two calls.
Tick ==
  /\ last = Idle
  /\ \E t \in ClockSamples : InstantLT(now, t) /\ now' = t
  /\ UNCHANGED <<index, last, after_default>>

\* The caller has the value or the exception of its call and goes on to the
\* next call on the same instance.
Return ==
  /\ last # Idle
  /\ last' = Idle
  /\ UNCHANGED <<index, clock>>

Next ==
  \/ \E o \in FeedOptions : LoadFromGtfs(o)
  \/ \E name \in GetStationNames : GetStation(name)
  \/ \E a \in QueryArgs, b \in QueryArgs : FareBetween(a, b)
  \/ \E a \in QueryArgs, b \in QueryArgs, after \in AfterSamples : NextTrips(a, b, after)
  \/ \E a \in QueryArgs, b \in QueryArgs : NextTripsDefault(a, b)
  \/ Tick
  \/ Return

Spec == Init /\ [][Next]_vars

(***************************************************************************)
(* The claims about the instance, checked under Spec.                      *)
(***************************************************************************)
\* The last call was a next_trips whose two stations resolved.
TripsReturned == last.op = "next_trips" /\ last.result.raised = NoError

\* The Station an argument of the last call stands for.
StationOfArg(x) == ResolveArg(x).ret

\* Train T has a Trip in the list ret.
HasTrip(ret, T) == \E i \in 1..Len(ret) : ret[i].train = T

\* T runs on the date of `after`: the date lies in T's service window and
\* its weekday is one of the window's days.
RunsOn(T, after) ==
  /\ DateKey(T.service_window.start) <= DateKey(after.date)
  /\ DateKey(after.date) <= DateKey(T.service_window.end)
  /\ Weekday(after.date) \in T.service_window.days

\* T stops at a and at b, at a no later in its stop sequence than at b.
RunsFromTo(T, a, b) ==
  /\ DictHas(T.stops, a)
  /\ DictHas(T.stops, b)
  /\ DictGet(T.stops, a).stop_number <= DictGet(T.stops, b).stop_number

\* C1: next_trips(a, b, after) holds a Trip for train T exactly when T runs
\* on after's date (date inside the service window, weekday among its days),
\* T stops at both a and b, a's stop_sequence does not exceed b's, and a's
\* departure time of day is not strictly before after's.  Every train has at
\* most one Trip, no returned Trip departs before after's time of day, and
\* two stations that resolve always give a list (empty if no train serves
\* both), never an error.
C1_NextTripsContract ==
  /\ (last.op = "next_trips"
      /\ ResolveArg(last.a).raised = NoError
      /\ ResolveArg(last.b).raised = NoError) => last.result.raised = NoError
  /\ TripsReturned =>
       LET ret == last.result.ret
           a == StationOfArg(last.a)
           b == StationOfArg(last.b)
           after == last.after
       IN /\ \A T \in DictValues(trains) :
                HasTrip(ret, T) <=>
                  /\ RunsOn(T, after)
                  /\ RunsFromTo(T, a, b)
                  /\ TimeKey(DictGet(T.stops, a).departure) >= TimeKey(after.time)
          /\ \A i \in 1..Len(ret) :
                /\ ret[i].train \in DictValues(trains)
                /\ TimeKey(ret[i].departure) >= TimeKey(after.time)
                /\ ret[i].departure = DictGet(ret[i].train.stops, a).departure
                /\ ret[i].arrival = DictGet(ret[i].train.stops, b).arrival
          /\ \A i, j \in 1..Len(ret) : ret[i].train = ret[j].train => i = j
          /\ (\A T \in DictValues(trains) : ~(DictHas(T.stops, a) /\ DictHas(T.stops, b)))
               => ret = <<>>

\* C2: the list next_trips returns is sorted non-decreasing by departure:
\* r[i].departure <= r[i+1].departure for consecutive results.
C2_SortedByDeparture ==
  TripsReturned =>
    \A i \in 1..(Len(last.result.ret) - 1) :
      TimeKey(last.result.ret[i].departure) <= TimeKey(last.result.ret[i + 1].departure)

\* Two trips were returned, and not in the order their trains were loaded.
C2_Witness ==
  /\ TripsReturned
  /\ Len(last.result.ret) = 2
  /\ \E i, j \in 1..Len(trains) :
       /\ i < j
       /\ trains[j][2] = last.result.ret[1].train
       /\ trains[i][2] = last.result.ret[2].train

\* The day offset of T's departure at station a.
DepartureDay(T, a) == DictGet(T.stops, a).departure_day

\* C3: next_trips returns the trips of the service day from soonest to latest
\* in real departure order: a train that runs on after's date from a to b and
\* leaves a with day offset 1 (after midnight of the same service day) is
\* returned whatever the time of day of after, and no trip leaving a with day
\* offset 1 stands before a trip leaving a with day offset 0.
C3_ServiceDayOrder ==
  TripsReturned =>
    LET ret == last.result.ret
        a == StationOfArg(last.a)
        b == StationOfArg(last.b)
    IN /\ \A T \in DictValues(trains) :
            (RunsOn(T, last.after) /\ RunsFromTo(T, a, b) /\ DepartureDay(T, a) >= 1)
              => HasTrip(ret, T)
       /\ \A i, j \in 1..Len(ret) :
            (i < j) => ~(DepartureDay(ret[i].train, a) > DepartureDay(ret[j].train, a))

\* The five collections are those one complete load of one feed builds.
WholeIndex ==
  \E o \in FeedOptions :
    /\ LoadOutcome[o].raised = NoError
    /\ trains = LoadOutcome[o].trains
    /\ stations = LoadOutcome[o].stations
    /\ unambiguous_stations = LoadOutcome[o].unambiguous_stations
    /\ service_windows = LoadOutcome[o].service_windows
    /\ fares = LoadOutcome[o].fares

\* C5: a load that fails leaves no partial index: after a failed
\* load_from_gtfs on a loaded instance, trains, stations, the name-lookup
\* index, the service windows and the fares are together those of one
\* complete load (the previous one), never a mixture or an emptied subset.
C5_NoPartialIndex ==
  (last.op = "load_from_gtfs" /\ last.raised # NoError) => WholeIndex

\* Two calls of get_station end the same way: both raise, or both return the
\* same Station.
SameOutcome(r, q) ==
  /\ r.raised = q.raised
  /\ r.raised = NoError => r.ret = q.ret

\* C7: for every canonical name of the alias table and every alias declared
\* for it, get_station(alias) ends as get_station(canonical name) does: the
\* same Station when the canonical station is in the index,
\* UnknownStationError for both otherwise.
C7_AliasSameOutcome ==
  \A i \in 1..Len(_ALIAS_MAP_RAW) :
    \A j \in 1..Len(_ALIAS_MAP_RAW[i][2]) :
      /\ SameOutcome(get_station(_ALIAS_MAP_RAW[i][2][j]), get_station(_ALIAS_MAP_RAW[i][1]))
      /\ get_station(_ALIAS_MAP_RAW[i][1]).raised \in {NoError, "UnknownStationError"}

\* get_station was called with an alias and returned the Station of the
\* canonical name, while another canonical name of the table is unknown.
C7_Witness ==
  /\ last.op = "get_station"
  /\ \E i \in 1..Len(_ALIAS_MAP_RAW) :
       /\ \E j \in 1..Len(_ALIAS_MAP_RAW[i][2]) : last.name = _ALIAS_MAP_RAW[i][2][j]
       /\ last.name # _ALIAS_MAP_RAW[i][1]
       /\ last.result.raised = NoError
       /\ last.result.ret = get_station(_ALIAS_MAP_RAW[i][1]).ret
  /\ \E i \in 1..Len(_ALIAS_MAP_RAW) :
       get_station(_ALIAS_MAP_RAW[i][1]).raised = "UnknownStationError"

\* C8: get_station raises UnknownStationError carrying exactly the original,
\* unsanitized input when the sanitized, alias-resolved key is not in the
\* unambiguous station index, and returns that key's Station, never raising,
\* when it is; the call leaves the index as it was.
C8_GetStationOutcome ==
  [][last'.op = "get_station" =>
       LET key == AliasGet(_sanitize_name(last'.name))
       IN /\ index' = index
          /\ IF DictHas(unambiguous_stations, key)
             THEN /\ last'.result.raised = NoError
                  /\ last'.result.ret = DictGet(unambiguous_stations, key)
             ELSE /\ last'.result.raised = "UnknownStationError"
                  /\ last'.result.exc = last'.name]_vars

\* get_station raised for a name that sanitizing changes.
C8_Witness ==
  /\ last.op = "get_station"
  /\ last.result.raised = "UnknownStationError"
  /\ _sanitize_name(last.name) # last.name

\* The fare rules of feed f for the ordered zone pair, in file order.
RulesFor(f, origin, destination) ==
  SelectSeq(f.fare_rules,
            LAMBDA r : /\ int(r.origin_id) = [raised |-> NoError, ret |-> origin]
                       /\ int(r.destination_id) = [raised |-> NoError, ret |-> destination])

\* The price rows of feed f for a fare id, in file order.
PricesFor(f, fare_id) == SelectSeq(f.fare_attributes, LAMBDA r : r.fare_id = fare_id)

\* The price feed f assigns to the ordered zone pair: that of the last rule
\* for the pair, as (dollars, cents).
RulePrice(f, origin, destination) ==
  LET rules == RulesFor(f, origin, destination)
      prices == PricesFor(f, rules[Len(rules)].fare_id)
  IN ParsePrice(prices[Len(prices)].price).ret

\* C10: fare_between(a, b) returns exactly the price the feed's fare rules
\* assign to the ordered pair (zone(a), zone(b)); without a rule for that
\* ordered pair it fails with KeyError, even when the reversed pair has a
\* fare; an unknown station name fails with UnknownStationError instead.
C10_FareBetween ==
  last.op = "fare_between" =>
    LET ra == ResolveArg(last.a)
        rb == ResolveArg(last.b)
        origin == ra.ret.zone
        destination == rb.ret.zone
    IN IF ra.raised # NoError \/ rb.raised # NoError
       THEN last.result.raised = "UnknownStationError"
       ELSE \A o \in FeedOptions :
              (LoadOutcome[o].raised = NoError /\ fares = LoadOutcome[o].fares) =>
                IF RulesFor(Feed(o), origin, destination) = <<>>
                THEN last.result.raised = "KeyError"
                ELSE /\ last.result.raised = NoError
                     /\ last.result.ret = RulePrice(Feed(o), origin, destination)

\* fare_between raised KeyError for a zone pair whose reverse has a fare.
C10_Witness ==
  /\ last.op = "fare_between"
  /\ last.result.raised = "KeyError"
  /\ DictHas(fares, <<last.result.exc[2], last.result.exc[1]>>)
  /\ WholeIndex

(***************************************************************************)
(* The module-level helpers on their own: no instance is constructed, the  *)
(* input is drawn in the initial state and the helper is applied to it.    *)
(***************************************************************************)
NoInstance ==
  /\ version = <<>>
  /\ trains = <<>>
  /\ stations = <<>>
  /\ unambiguous_stations = <<>>
  /\ service_windows = <<>>
  /\ fares = <<>>
  /\ after_default = ImportedAt
  /\ now = ImportedAt

\* The pieces names are put together from: 'sta', 'tion', 'Station', ' ',
\* 'SF', '-22nd', 'St.'
SanitizeTokens ==
  {<<"s", "t", "a">>,
   <<"t", "i", "o", "n">>,
   <<"S", "t", "a", "t", "i", "o", "n">>,
   <<" ">>,
   <<"S", "F">>,
   <<"-", "2", "2", "n", "d">>,
   <<"S", "t", ".">>}

MaxTokens == 3

RECURSIVE TokenStrings(_)
TokenStrings(n) ==
  IF n = 0 THEN {<<>>}
  ELSE LET shorter == TokenStrings(n - 1)
       IN shorter \cup {p \o t : p \in shorter, t \in SanitizeTokens}

SanitizeInputs == TokenStrings(MaxTokens)

SanitizeInit ==
  /\ NoInstance
  /\ \E x \in SanitizeInputs : last = [op |-> "input", name |-> x]

SanitizeName ==
  /\ last.op = "input"
  /\ last' = [op |-> "_sanitize_name", name |-> last.name,
              ret |-> _sanitize_name(last.name)]
  /\ UNCHANGED <<index, clock>>

\* The key a first call returned is sanitized again.
SanitizeKey ==
  /\ last.op = "_sanitize_name"
  /\ last' = [op |-> "_sanitize_name", name |-> last.ret,
              ret |-> _sanitize_name(last.ret)]
  /\ UNCHANGED <<index, clock>>

SanitizeNext == SanitizeName \/ SanitizeKey

SpecSanitize == SanitizeInit /\ [][SanitizeNext]_vars

\* The decimal digits of n, at least two of them: '%02d' % n
RECURSIVE Decimal(_)
Decimal(n) == IF n < 10 THEN <<DigitChars[n + 1]>>
              ELSE Decimal(n \div 10) \o <<DigitChars[(n % 10) + 1]>>

TwoDigits(n) == IF n < 10 THEN <<"0">> \o Decimal(n) ELSE Decimal(n)

\* 'HH:MM:SS' as a feed writes it.
TimeString(h, m, s) == TwoDigits(h) \o <<":">> \o TwoDigits(m) \o <<":">> \o TwoDigits(s)

MaxHour == 49
MinuteSamples == {0, 30, 59}
SecondSamples == {0, 59}

\* Rows of stop_times.txt as (arrival_time, departure_time): the times
\* around midnight of the service day, the arrival not after the departure;
\* and, last, an hour 2932897 days after the service day, where _BASE_DATE
\* plus the day offset is past 9999-12-31.
StopTimeSamples ==
  {<<TimeString(22, 0, 0), TimeString(22, 0, 0)>>,
   <<TimeString(23, 50, 0), TimeString(23, 50, 0)>>,
   <<TimeString(23, 58, 0), TimeString(24, 2, 0)>>,
   <<TimeString(24, 10, 0), TimeString(24, 10, 0)>>,
   <<TimeString(24, 10, 0), TimeString(24, 12, 0)>>,
   <<TimeString(47, 59, 0), TimeString(48, 1, 0)>>,
   <<TimeString(70389528, 30, 0), TimeString(70389528, 30, 0)>>}

\* Strings that are not HH:MM:SS: a field too many, an empty field, a field
\* too few, the empty string and letters, which int() or the unpacking
\* rejects; whitespace (\x0b at both ends of the last string but one), signs
\* and an underscore, which int() reads; and, last, a trailing \x1f, which
\* str.strip() passes over and int() rejects.
RawTimeStrings ==
  {<<"1", ":", "2", ":", "3", ":", "4">>,
   <<"1", ":", "2", ":", "3", ":">>,
   <<"1", "2", ":", "3", "0">>,
   <<>>,
   <<"a", "b", ":", "0", "0", ":", "0", "0">>,
   <<" ", "7", ":", "0", "5", ":", "0", "0", "\n">>,
   <<"-", "1", ":", "0", "0", ":", "0", "0">>,
   <<"+", "1", ":", "-", "2", ":", "3">>,
   <<"1", "_", "0", ":", "0", "0", ":", "0", "0">>,
   <<"1", "_", "_", "0", ":", "0", "0", ":", "0", "0">>,
   <<"", "7", ":", "0", "5", ":", "0", "0", "">>,
   <<"7", ":", "0", "5", ":", "0", "0", "">>}

StopSamples ==
  {StopOf(st[1], st[2], <<DigitChars[n + 1]>>).ret : st \in StopTimeSamples, n \in 1..2}

TimeInit ==
  /\ NoInstance
  /\ \/ \E h \in 0..MaxHour, m \in MinuteSamples, s \in SecondSamples :
          last = [op |-> "input", of |-> "_resolve_time", hms |-> TRUE,
                  hour |-> h, minute |-> m, second |-> s, t |-> TimeString(h, m, s)]
     \/ \E t \in RawTimeStrings :
          last = [op |-> "input", of |-> "_resolve_time", hms |-> FALSE,
                  hour |-> 0, minute |-> 0, second |-> 0, t |-> t]
     \/ \E start \in StopSamples, end \in StopSamples :
          last = [op |-> "input", of |-> "_resolve_duration",
                  start |-> start, end |-> end]

ResolveTime ==
  /\ last.op = "input" /\ last.of = "_resolve_time"
  /\ last' = [last EXCEPT !.op = "_resolve_time"] @@ [result |-> _resolve_time(last.t)]
  /\ UNCHANGED <<index, clock>>

ResolveDuration ==
  /\ last.op = "input" /\ last.of = "_resolve_duration"
  /\ last' = [last EXCEPT !.op = "_resolve_duration"]
             @@ [result |-> _resolve_duration(last.start, last.end)]
  /\ UNCHANGED <<index, clock>>

TimeNext == ResolveTime \/ ResolveDuration

SpecTime == TimeInit /\ [][TimeNext]_vars

(***************************************************************************)
(* The claims about the helpers, checked under SpecTime and SpecSanitize.  *)
(***************************************************************************)
\* A (day offset, time of day) pair as seconds on one timeline.
OnTimeline(day, t) == day * SecondsPerDay + TimeKey(t)

\* C4: the duration of a trip from Stop start to Stop end is end's arrival
\* instant minus start's departure instant, each placed on one timeline as
\* its own day offset times 24h plus its time of day (arrival_day with
\* arrival, departure_day with departure); it is positive whenever the
\* arrival's day offset exceeds the departure's.
C4_DurationOnOneTimeline ==
  (last.op = "_resolve_duration" /\ last.result.raised = NoError) =>
    /\ total_seconds(last.result.ret)
         = OnTimeline(last.end.arrival_day, last.end.arrival)
           - OnTimeline(last.start.departure_day, last.start.departure)
    /\ last.end.arrival_day > last.start.departure_day
         => total_seconds(last.result.ret) > 0

\* C6: sanitizing is idempotent: the key _sanitize_name returns is left
\* unchanged by _sanitize_name.
C6_SanitizeIdempotent ==
  last.op = "_sanitize_name" => _sanitize_name(last.ret) = last.ret

\* The time string '25:30:00'.
T253000 == TimeString(25, 30, 0)

\* The rule of _resolve_time: the day offset is H div 24, the time of day is
\* (H mod 24):M:S, so day * 24 + hour = H with hour in 0..23.
DivModRule ==
  /\ last.result.raised = NoError
  /\ last.result.ret = <<last.hour \div 24, Time(last.hour % 24, last.minute, last.second)>>
  /\ last.result.ret[1] * 24 + last.result.ret[2].hour = last.hour
  /\ last.result.ret[2].hour \in 0..23

\* C9 as stated: for a time string H:M:S with H >= 0 and M, S in 0..59,
\* _resolve_time returns the day offset H div 24 and the time of day
\* (H mod 24):M:S, and '25:30:00' gives (1, 00:30:00).
C9_AsStated ==
  (last.op = "_resolve_time" /\ last.hms /\ last.minute <= 59 /\ last.second <= 59) =>
    /\ DivModRule
    /\ last.t = T253000 => last.result.ret = <<1, Time(0, 30, 0)>>

\* C9, amended: for a time string H:M:S with H >= 0 and M, S in 0..59,
\* _resolve_time returns the day offset H div 24 and the time of day
\* (H mod 24):M:S, so that day * 24 + hour = H with hour in 0..23; and
\* '25:30:00' gives (1, 01:30:00).
C9_ResolveTime ==
  (last.op = "_resolve_time" /\ last.hms /\ last.minute <= 59 /\ last.second <= 59) =>
    /\ DivModRule
    /\ last.t = T253000 => last.result.ret = <<1, Time(1, 30, 0)>>

\* '25:30:00' was resolved, to day 1 and the hour 1.
C9_Witness ==
  /\ last.op = "_resolve_time"
  /\ last.t = T253000
  /\ last.result.raised = NoError
  /\ last.result.ret[1] = 1
  /\ last.result.ret[2].hour = 1

(***************************************************************************)
(* The claims about what the loader does with the rows of a feed.          *)
(***************************************************************************)
\* A rule of fare_rules.txt names a fare id fare_attributes.txt has no row for.
DanglingFareRule(f) ==
  \E i \in 1..Len(f.fare_rules) :
    \A j \in 1..Len(f.fare_attributes) :
      f.fare_attributes[j].fare_id # f.fare_rules[i].fare_id

\* A row of trips.txt names a service id calendar.txt has no row for.
UnknownService(f) ==
  \E i \in 1..Len(f.trips) :
    \A j \in 1..Len(f.calendar) : f.calendar[j].service_id # f.trips[i].service_id

\* C11: a load aborts with an error, and does not complete with the
\* offending row dropped, whenever a fare rule names a fare id absent from
\* fare_attributes.txt or a trip names a service id absent from calendar.txt.
C11_DanglingReferenceAborts ==
  (/\ last.op = "load_from_gtfs"
   /\ DanglingFareRule(Feed(last.feed)) \/ UnknownService(Feed(last.feed)))
    => last.raised # NoError

\* A load of an archive whose only defect is a dangling fare rule raised
\* KeyError.
C11_Witness ==
  /\ last.op = "load_from_gtfs"
  /\ DanglingFareRule(Feed(last.feed))
  /\ ~UnknownService(Feed(last.feed))
  /\ last.raised = "KeyError"

\* C12: next_trips called without `after` uses the current time at the
\* moment of that call: the reference instant of such a call is the clock's
\* instant when it is made, and its result is that of next_trips(a, b, now),
\* not that of an instant fixed earlier, such as the import of the module.
C12_DefaultAfterIsCallTime ==
  (last.op = "next_trips" /\ last.default) =>
    /\ last.after = now
    /\ last.result = next_trips(last.a, last.b, now)

\* A row of stops.txt the loader is to pass over: its stop id is not numeric
\* or its name does not match _STATIONS_RE.
NoiseStopRow(r) == ~IsDigit(r.stop_id) \/ ~_STATIONS_RE(r.stop_name).matched

\* The rows of stops.txt that remain.
KeptStopRows(f) == SelectSeq(f.stops, LAMBDA r : ~NoiseStopRow(r))

\* load_from_gtfs on each archive with only the remaining rows in stops.txt.
KeptStopsOutcome ==
  [o \in FeedOptions |-> LoadPass([Feed(o) EXCEPT !.stops = KeptStopRows(Feed(o))])]

\* C13: a row of stops.txt whose stop id is non-numeric or whose name does
\* not match the station-name pattern is skipped and the load continues: the
\* load succeeds and the index holds exactly the stations of the remaining
\* rows.
C13_NoiseStopRowsSkipped ==
  (/\ last.op = "load_from_gtfs"
   /\ \E i \in 1..Len(Feed(last.feed).stops) : NoiseStopRow(Feed(last.feed).stops[i])
   /\ KeptStopsOutcome[last.feed].raised = NoError)
    => /\ last.raised = NoError
       /\ stations = KeptStopsOutcome[last.feed].stations
       /\ unambiguous_stations = KeptStopsOutcome[last.feed].unambiguous_stations

\* The stop ids load_from_gtfs filters out of stops.txt: the non-numeric ones.
FilteredStopIds(f) ==
  {f.stops[i].stop_id : i \in {j \in 1..Len(f.stops) : ~IsDigit(f.stops[j].stop_id)}}

\* The rows of stop_times.txt that do not refer to a filtered stop.
KeptStopTimeRows(f) == SelectSeq(f.stop_times, LAMBDA r : r.stop_id \notin FilteredStopIds(f))

\* load_from_gtfs on each archive with only those rows in stop_times.txt.
KeptStopTimesOutcome ==
  [o \in FeedOptions |-> LoadPass([Feed(o) EXCEPT !.stop_times = KeptStopTimeRows(Feed(o))])]

\* C14: a row of stop_times.txt whose stop id refers to a station filtered
\* out of stops.txt is skipped: the load succeeds, no train gains a Stop from
\* such a row, and every row of a kept station adds a Stop to its train
\* keyed by that Station.
C14_FilteredStopTimesSkipped ==
  (/\ last.op = "load_from_gtfs"
   /\ \E i \in 1..Len(Feed(last.feed).stop_times) :
        Feed(last.feed).stop_times[i].stop_id \in FilteredStopIds(Feed(last.feed))
   /\ KeptStopTimesOutcome[last.feed].raised = NoError)
    => /\ last.raised = NoError
       /\ trains = KeptStopTimesOutcome[last.feed].trains

====
